---- MODULE Spec2Model ----
(***************************************************************************)
(* git2mind: the ingestion pipeline (RepoReader, the parsers, the          *)
(* SimpleChunker and main).                                                *)
(*                                                                         *)
(* A Python str is a sequence of one-character strings; a relative path    *)
(* is the sequence of its components (pathlib's parts), each a str.        *)
(***************************************************************************)
EXTENDS Integers, Sequences, FiniteSets, TLC

VARIABLES
    \* SimpleChunker.chunk_document applied to a parsed Document
    cpc, c_path, c_content, chunk_size, doc, chunks,
    \* a RepoReader (readers.py): the arguments of __init__, the .gitignore
    \* at the root, the caller's list object and the reader's fields
    rpc, in_exclude, exclude_arg, use_gitignore, gitignore_file,
    exclude_patterns, gitignore_spec,
    \* one call of should_exclude
    m_path, excluded,
    \* one call of read_files: the entries rglob yields, in its order, the
    \* argument, the loop's position and locals, and what was done, in order
    spc, tree, max_files, pos, documents, file_count, events,
    \* one run of main (git2mind.py): the command line and the tree at
    \* args.path, main's locals, and how the run ended
    mainpc, path_exists, args, main_tree, main_documents, main_events,
    doc_index, total_chunks, written, status,
    \* one call of DockerfileParser.parse or LicenseParser.parse: the
    \* arguments, the Document and the metadata the parser adds to it
    ppc, p_path, p_content, p_doc, p_meta

chunkVars == <<cpc, c_path, c_content, chunk_size, doc, chunks>>
readerVars == <<rpc, in_exclude, exclude_arg, use_gitignore, gitignore_file,
                exclude_patterns, gitignore_spec>>
matchVars == <<m_path, excluded>>
scanVars == <<spc, tree, max_files, pos, documents, file_count, events>>

mainVars == <<mainpc, path_exists, args, main_tree, main_documents,
              main_events, doc_index, total_chunks, written, status>>

parseVars == <<ppc, p_path, p_content, p_doc, p_meta>>

vars == <<chunkVars, readerVars, matchVars, scanVars, mainVars, parseVars>>

(***************************************************************************)
(* Bounds of the model.                                                    *)
(***************************************************************************)
MaxContentLen == 4
MaxChunkSize == 3

(***************************************************************************)
(* Python built-ins used by the code.                                      *)
(***************************************************************************)
NL == "\n"

Min(a, b) == IF a <= b THEN a ELSE b

\* All str values of length <= n over the characters of S
StrsUpTo(S, n) == UNION {[1..k -> S] : k \in 0..n}

\* str.count(ch)
Count(s, ch) == Cardinality({k \in 1..Len(s) : s[k] = ch})

\* s[i:j] for 0 <= i (Python's slice, clamped at both ends)
Slice(s, i, j) == SubSeq(s, i + 1, Min(j, Len(s)))

\* index (1-based) of the first ch in s, 0 when there is none
Find(s, ch) ==
    IF \E k \in 1..Len(s) : s[k] = ch
    THEN CHOOSE k \in 1..Len(s) : s[k] = ch /\ \A j \in 1..(k - 1) : s[j] # ch
    ELSE 0

\* str.split(sep) for a one-character sep: never empty, '' gives ['']
RECURSIVE Split(_, _)
Split(s, sep) ==
    LET k == Find(s, sep)
    IN  IF k = 0 THEN <<s>>
        ELSE <<SubSeq(s, 1, k - 1)>> \o Split(SubSeq(s, k + 1, Len(s)), sep)

\* sep.join(parts) for a one-character sep
RECURSIVE Join(_, _)
Join(parts, sep) ==
    IF Len(parts) = 0 THEN <<>>
    ELSE IF Len(parts) = 1 THEN parts[1]
    ELSE parts[1] \o <<sep>> \o Join(Tail(parts), sep)

\* str.splitlines() on text whose only line boundary is '\n': no trailing
\* empty line, '' gives []
SplitLines(s) ==
    IF s = <<>> THEN <<>>
    ELSE IF s[Len(s)] = NL THEN Split(SubSeq(s, 1, Len(s) - 1), NL)
    ELSE Split(s, NL)

(***************************************************************************)
(* Paths (pathlib).                                                        *)
(***************************************************************************)
UpperCase == <<"A","B","C","D","E","F","G","H","I","J","K","L","M",
               "N","O","P","Q","R","S","T","U","V","W","X","Y","Z">>
LowerCase == <<"a","b","c","d","e","f","g","h","i","j","k","l","m",
               "n","o","p","q","r","s","t","u","v","w","x","y","z">>

\* str.lower()
LowerChar(c) ==
    IF \E k \in 1..26 : UpperCase[k] = c
    THEN LowerCase[CHOOSE k \in 1..26 : UpperCase[k] = c]
    ELSE c

Lower(s) == [k \in 1..Len(s) |-> LowerChar(s[k])]

\* index (1-based) of the last ch in s, 0 when there is none
RFind(s, ch) ==
    IF \E k \in 1..Len(s) : s[k] = ch
    THEN CHOOSE k \in 1..Len(s) : s[k] = ch /\ \A j \in (k + 1)..Len(s) : s[j] # ch
    ELSE 0

\* PurePath.name: the last component ('' for the path '.')
PathName(path) == IF Len(path) = 0 THEN <<>> ELSE path[Len(path)]

\* PurePath.suffix: from the last '.', unless it leads or ends the name
Suffix(name) ==
    LET k == RFind(name, ".")
    IN  IF 1 < k /\ k < Len(name) THEN SubSeq(name, k, Len(name)) ELSE <<>>

\* str(path): the components joined by '/'
PathStr(path) == Join(path, "/")

(***************************************************************************)
(* parsers.py                                                              *)
(***************************************************************************)
\* len(content): a content element is one character, or RunChar, which
\* stands for RunLen consecutive 'x' characters (a large file's filler)
MaxContentChars == 100000
RunChar == "x..x"
RunLen == MaxContentChars \div 2
\* WideRunChar stands for RunLen consecutive two-byte characters
WideRunChar == "e'..e'"

CharLen(c) == IF c \in {RunChar, WideRunChar} THEN RunLen ELSE 1

RECURSIVE PyLen(_)
PyLen(s) == IF s = <<>> THEN 0 ELSE CharLen(Head(s)) + PyLen(Tail(s))

\* bytes of one character in UTF-8: WideChar is a two-byte character
WideChar == "e'"
Utf8Len(c) ==
    IF c = WideChar THEN 2
    ELSE IF c = WideRunChar THEN 2 * RunLen
    ELSE CharLen(c)

RECURSIVE EncodedLen(_)
EncodedLen(s) == IF s = <<>> THEN 0 ELSE Utf8Len(Head(s)) + EncodedLen(Tail(s))

DockerfileName == <<"D","o","c","k","e","r","f","i","l","e">>
LicenseName == <<"L","I","C","E","N","S","E">>

\* get_parser, by the language of the parser it returns
get_parser(path) ==
    IF PathName(path) = DockerfileName THEN "dockerfile"
    ELSE IF PathName(path) = LicenseName THEN "license"
    ELSE LET ext == Lower(Suffix(PathName(path)))
         IN  IF ext = <<".","p","y">> THEN "python"
             ELSE IF ext = <<".","m","d">> THEN "markdown"
             ELSE IF ext = <<".","t","x","t">> THEN "text"
             ELSE "unknown"

\* mutation: lines is the count of '\n' plus one for every content
BaseParseCountPlusOne(path, content, language) ==
    [id         |-> PathStr(path) \o content,
     path       |-> PathStr(path),
     language   |-> language,
     size_bytes |-> EncodedLen(content),
     lines      |-> Count(content, NL) + 1,
     content    |-> content]

\* BaseParser.parse: the id is the string that is hashed (sha1 taken as
\* injective on it)
BaseParse(path, content, language) ==
    [id         |-> PathStr(path) \o content,
     path       |-> PathStr(path),
     language   |-> language,
     size_bytes |-> EncodedLen(content),
     lines      |-> IF content # <<>> THEN Count(content, NL) + 1 ELSE 0,
     content    |-> content]

\* LicenseParser.parse indexes content.splitlines()[0]: IndexError when the
\* list is empty; no other parser raises
ParserRaises(path, content) ==
    get_parser(path) = "license" /\ SplitLines(content) = <<>>

\* parser.parse(relative_path, content) of the parser get_parser returns
Parse(path, content) == BaseParse(path, content, get_parser(path))

NoDoc == [id |-> <<>>, path |-> <<>>, language |-> "none", size_bytes |-> 0,
          lines |-> 0, content |-> <<>>]

(***************************************************************************)
(* chunker.py                                                              *)
(***************************************************************************)
\* mutation: end_line without the min
RECURSIVE ChunksFromNoMin(_, _, _, _)
ChunksFromNoMin(d, lines, i, s) ==
    IF i >= Len(lines) THEN <<>>
    ELSE <<[doc_id     |-> d.id,
            path       |-> d.path,
            content    |-> Join(Slice(lines, i, i + s), NL),
            start_line |-> i + 1,
            end_line   |-> i + s]>>
         \o ChunksFromNoMin(d, lines, i + s, s)

\* mutation: the slice stops one line early
RECURSIVE ChunksFromShortSlice(_, _, _, _)
ChunksFromShortSlice(d, lines, i, s) ==
    IF i >= Len(lines) THEN <<>>
    ELSE <<[doc_id     |-> d.id,
            path       |-> d.path,
            content    |-> Join(Slice(lines, i, i + s - 1), NL),
            start_line |-> i + 1,
            end_line   |-> Min(i + s, Len(lines))]>>
         \o ChunksFromShortSlice(d, lines, i + s, s)

\* the loop of chunk_document, for i in range(i, len(lines), s) with s > 0
RECURSIVE ChunksFrom(_, _, _, _)
ChunksFrom(d, lines, i, s) ==
    IF i >= Len(lines) THEN <<>>
    ELSE <<[doc_id     |-> d.id,
            path       |-> d.path,
            content    |-> Join(Slice(lines, i, i + s), NL),
            start_line |-> i + 1,
            end_line   |-> Min(i + s, Len(lines))]>>
         \o ChunksFrom(d, lines, i + s, s)

\* SimpleChunker.chunk_document for chunk_size s # 0 (range raises
\* ValueError for a step of 0, and is empty for a negative step)
chunk_document(d, s) ==
    IF s < 0 THEN <<>> ELSE ChunksFrom(d, Split(d.content, NL), 0, s)

(***************************************************************************)
(* readers.py: RepoReader.__init__ and should_exclude                      *)
(***************************************************************************)
\* fnmatch.fnmatch(name, pat) on POSIX, for patterns built of literals, '*'
\* and '?' (a '*' also matches '/'; no '[' occurs in the patterns used)
RECURSIVE FnMatch(_, _)
FnMatch(name, pat) ==
    IF pat = <<>> THEN name = <<>>
    ELSE IF Head(pat) = "*"
         THEN FnMatch(name, Tail(pat)) \/ (name # <<>> /\ FnMatch(Tail(name), pat))
    ELSE IF name = <<>> THEN FALSE
    ELSE IF Head(pat) = "?" THEN FnMatch(Tail(name), Tail(pat))
    ELSE Head(pat) = Head(name) /\ FnMatch(Tail(name), Tail(pat))

\* str.rstrip(chars): every trailing character that is in chars is removed
RECURSIVE RStrip(_, _)
RStrip(s, chars) ==
    IF s # <<>> /\ s[Len(s)] \in chars THEN RStrip(SubSeq(s, 1, Len(s) - 1), chars)
    ELSE s

\* the names of relative.parents: the ancestor directories and, last, the
\* path '.', whose name is ''
ParentNames(path) == {path[k] : k \in 1..(Len(path) - 1)} \cup {<<>>}

\* the default excludes RepoReader.__init__ appends
DefaultExcludes ==
    <<<<"*",".","p","y","c">>,
       <<"_","_","p","y","c","a","c","h","e","_","_">>,
       <<"_","_","p","y","c","a","c","h","e","_","_","/","*">>,
       <<".","g","i","t">>,
       <<".","g","i","t","/","*">>,
       <<".","v","e","n","v">>,
       <<".","v","e","n","v","/","*">>,
       <<"v","e","n","v">>,
       <<"v","e","n","v","/","*">>,
       <<"n","o","d","e","_","m","o","d","u","l","e","s">>,
       <<"n","o","d","e","_","m","o","d","u","l","e","s","/","*">>,
       <<"d","i","s","t">>,
       <<"d","i","s","t","/","*">>,
       <<"b","u","i","l","d">>,
       <<"b","u","i","l","d","/","*">>,
       <<"*",".","e","g","g","-","i","n","f","o">>>>

\* pathspec's GitWildMatchPattern for one .gitignore line built of literals,
\* '*', '?', '/' and a leading '!' (no '**', comment, escape or blank line):
\* the segments between slashes; a leading or inner slash anchors the rule at
\* the root, a trailing slash makes it match only below a directory
GitPattern(line) ==
    LET neg == line # <<>> /\ line[1] = "!"
        body == IF neg THEN Tail(line) ELSE line
        segs0 == Split(body, "/")
        lead == segs0[1] = <<>>
        dirOnly == segs0[Len(segs0)] = <<>>
        first == IF lead THEN 2 ELSE 1
        last == IF dirOnly THEN Len(segs0) - 1 ELSE Len(segs0)
    IN  [include  |-> ~neg,
         anchored |-> lead \/ last > 1,
         dirOnly  |-> dirOnly,
         segs     |-> SubSeq(segs0, first, last)]

\* GitWildMatchPattern.match_file: an unanchored rule matches a component at
\* any depth, an anchored rule the leading components; what lies below a
\* matched component is matched too
GitMatch(p, path) ==
    LET n == Len(path)
        m == Len(p.segs)
    IN  IF p.anchored
        THEN /\ m <= n
             /\ p.dirOnly => m < n
             /\ \A j \in 1..m : FnMatch(path[j], p.segs[j])
        ELSE \E k \in 1..n : /\ p.dirOnly => k < n
                             /\ FnMatch(path[k], p.segs[1])

\* PathSpec.from_lines(GitWildMatchPattern, gitignore.splitlines())
FromLines(lines) == [k \in 1..Len(lines) |-> GitPattern(lines[k])]

\* PathSpec.match_file: the last rule that matches the file decides
MatchFile(spec, path) ==
    LET hits == {k \in 1..Len(spec) : GitMatch(spec[k], path)}
    IN  /\ hits # {}
        /\ spec[CHOOSE k \in hits : \A j \in hits : j <= k].include

\* the root has no .gitignore / the file's lines
NoFile == [exists |-> FALSE, lines |-> <<>>]
GitignoreFile(lines) == [exists |-> TRUE, lines |-> lines]

\* self.gitignore_spec: None, or the PathSpec of the file's rules
None == [loaded |-> FALSE, patterns |-> <<>>]
PathSpec(patterns) == [loaded |-> TRUE, patterns |-> patterns]

\* one turn of the loop over exclude_patterns in should_exclude
PatternExcludes(pattern, path) ==
    \/ FnMatch(PathStr(path), pattern)
    \/ FnMatch(PathName(path), pattern)
    \/ \E parent \in ParentNames(path) : FnMatch(parent, RStrip(pattern, {"/", "*"}))

\* mutation: with a loaded .gitignore its verdict is returned as the result
should_exclude_GitignoreFinal(path, use_gi, gi_spec, patterns) ==
    IF use_gi /\ gi_spec.loaded /\ Len(gi_spec.patterns) > 0
    THEN MatchFile(gi_spec.patterns, path)
    ELSE \E k \in 1..Len(patterns) : PatternExcludes(patterns[k], path)

\* RepoReader.should_exclude (readers.py); `if self.gitignore_spec` is false
\* for None and for a PathSpec without patterns
should_exclude(path, use_gi, gi_spec, patterns) ==
    IF /\ use_gi
       /\ gi_spec.loaded /\ Len(gi_spec.patterns) > 0
       /\ MatchFile(gi_spec.patterns, path)
    THEN TRUE
    ELSE \E k \in 1..Len(patterns) : PatternExcludes(patterns[k], path)

\* mutation: the default excludes are not appended
ExtendedPatternsNoDefaults(arg) == arg

\* what __init__ leaves in self.exclude_patterns: the list it was given (or a
\* new one when that is empty or None) extended by the default excludes
ExtendedPatterns(arg) == arg \o DefaultExcludes

\* RepoReader.__init__: `exclude_patterns or []` is the caller's own list
\* object unless that list is empty, so extend() changes the caller's list too
Construct ==
    /\ rpc = "new"
    /\ exclude_patterns' = ExtendedPatterns(exclude_arg)
    /\ exclude_arg' = IF exclude_arg # <<>> THEN ExtendedPatterns(exclude_arg)
                      ELSE exclude_arg
    /\ gitignore_spec' = IF use_gitignore /\ gitignore_file.exists
                         THEN PathSpec(FromLines(gitignore_file.lines))
                         ELSE None
    /\ rpc' = "ready"
    /\ UNCHANGED <<in_exclude, use_gitignore, gitignore_file>>

(***************************************************************************)
(* parsers.py: DockerfileParser and LicenseParser.  The metadata a parser  *)
(* adds to the Document is kept beside it (last_modified, a timestamp of   *)
(* the file system, is left out).                                          *)
(***************************************************************************)
\* the white space str.strip() and str.split(None) know, within one line
Whitespace == {" ", "\t"}

\* str.lstrip(chars)
RECURSIVE LStrip(_, _)
LStrip(s, chars) ==
    IF s # <<>> /\ Head(s) \in chars THEN LStrip(Tail(s), chars) ELSE s

\* str.strip()
Strip(s) == LStrip(RStrip(s, Whitespace), Whitespace)

\* str.upper()
UpperChar(c) ==
    IF \E k \in 1..26 : LowerCase[k] = c
    THEN UpperCase[CHOOSE k \in 1..26 : LowerCase[k] = c]
    ELSE c

Upper(s) == [k \in 1..Len(s) |-> UpperChar(s[k])]

\* str.startswith(prefix)
StartsWith(s, prefix) ==
    Len(s) >= Len(prefix) /\ SubSeq(s, 1, Len(prefix)) = prefix

\* s[n:]
DropFirst(s, n) == SubSeq(s, n + 1, Len(s))

\* str.find(sub), 1-based: 0 when sub does not occur
FindSub(s, sub) ==
    LET at(k) == SubSeq(s, k, k + Len(sub) - 1) = sub
        ks == {k \in 1..(Len(s) - Len(sub) + 1) : at(k)}
    IN  IF ks = {} THEN 0 ELSE CHOOSE k \in ks : \A j \in ks : k <= j

\* s.split(sub)[0]: what precedes the first occurrence of sub, or all of s
BeforeSub(s, sub) ==
    LET k == FindSub(s, sub) IN IF k = 0 THEN s ELSE SubSeq(s, 1, k - 1)

\* s.split(sub, 1) where sub occurs in s: the two parts
SplitOnce(s, sub) ==
    LET k == FindSub(s, sub)
    IN  <<SubSeq(s, 1, k - 1), SubSeq(s, k + Len(sub), Len(s))>>

\* index of the first white space in s, 0 when there is none
FindWhitespace(s) ==
    LET ks == {k \in 1..Len(s) : s[k] \in Whitespace}
    IN  IF ks = {} THEN 0 ELSE CHOOSE k \in ks : \A j \in ks : k <= j

\* s.split(None, 1): at most two parts, separated by a run of white space
SplitWhitespaceOnce(s) ==
    LET t == LStrip(s, Whitespace)
        k == FindWhitespace(t)
    IN  IF t = <<>> THEN <<>>
        ELSE IF k = 0 THEN <<t>>
        ELSE LET rest == LStrip(SubSeq(t, k, Len(t)), Whitespace)
             IN  IF rest = <<>> THEN <<SubSeq(t, 1, k - 1)>>
                 ELSE <<SubSeq(t, 1, k - 1), rest>>

\* an Optional[str]: None, or a str
Unset == [is_none |-> TRUE, value |-> <<>>]
Str(s) == [is_none |-> FALSE, value |-> s]

\* `not image`: None and '' are both false
Falsy(v) == v.is_none \/ v.value = <<>>

KwFrom == <<"F", "R", "O", "M", " ">>
KwWorkdir == <<"W", "O", "R", "K", "D", "I", "R", " ">>
KwEntrypoint == <<"E", "N", "T", "R", "Y", "P", "O", "I", "N", "T", " ">>
KwCmd == <<"C", "M", "D", " ">>
KwEnv == <<"E", "N", "V", " ">>
SepAs == <<" ", "A", "S", " ">>

\* env = {} and env[key] = value
EmptyEnv == [k \in {} |-> <<>>]
EnvSet(env, key, value) ==
    [k \in DOMAIN env \cup {key} |-> IF k = key THEN value ELSE env[k]]

\* mutation: image starts as the empty string
DockerInitEmptyImage ==
    [image |-> Str(<<>>), workdir |-> Unset, entrypoint |-> Unset,
     cmd |-> Unset, env |-> EmptyEnv]

\* image = None, ..., env = {} before the loop
DockerInit ==
    [image |-> Unset, workdir |-> Unset, entrypoint |-> Unset, cmd |-> Unset,
     env |-> EmptyEnv]

\* mutation: a directive is kept only while nothing is set yet
AssignOnce(old, value) == IF old.is_none THEN Str(value) ELSE old

\* `workdir = ...`, `entrypoint = ...`, `cmd = ...`: plain assignment
Assign(old, value) == Str(value)

\* mutation: a key that is already set keeps its value
EnvLineKeepFirst(env, env_part) ==
    IF FindSub(env_part, <<"=">>) # 0
    THEN LET kv == SplitOnce(env_part, <<"=">>)
         IN  IF Strip(kv[1]) \in DOMAIN env THEN env
             ELSE EnvSet(env, Strip(kv[1]), Strip(kv[2]))
    ELSE LET parts == SplitWhitespaceOnce(env_part)
         IN  IF Len(parts) = 2 /\ parts[1] \notin DOMAIN env
             THEN EnvSet(env, parts[1], parts[2])
             ELSE env

\* the ENV branch on env_part = line[4:].strip()
EnvLine(env, env_part) ==
    IF FindSub(env_part, <<"=">>) # 0
    THEN LET kv == SplitOnce(env_part, <<"=">>)
         IN  EnvSet(env, Strip(kv[1]), Strip(kv[2]))
    ELSE LET parts == SplitWhitespaceOnce(env_part)
         IN  IF Len(parts) = 2 THEN EnvSet(env, parts[1], parts[2]) ELSE env

\* one turn of `for line in content.splitlines()`
DockerLine(st, raw) ==
    LET line == Strip(raw)
        upper_line == Upper(line)
    IN  IF StartsWith(upper_line, KwFrom) /\ Falsy(st.image)
        THEN [st EXCEPT !.image = Str(Strip(BeforeSub(DropFirst(line, 5), SepAs)))]
        ELSE IF StartsWith(upper_line, KwWorkdir)
        THEN [st EXCEPT !.workdir = Assign(@, Strip(DropFirst(line, 8)))]
        ELSE IF StartsWith(upper_line, KwEntrypoint)
        THEN [st EXCEPT !.entrypoint = Assign(@, Strip(DropFirst(line, 11)))]
        ELSE IF StartsWith(upper_line, KwCmd)
        THEN [st EXCEPT !.cmd = Assign(@, Strip(DropFirst(line, 4)))]
        ELSE IF StartsWith(upper_line, KwEnv)
        THEN [st EXCEPT !.env = EnvLine(@, Strip(DropFirst(line, 4)))]
        ELSE st

RECURSIVE DockerLoop(_, _)
DockerLoop(st, lines) ==
    IF lines = <<>> THEN st ELSE DockerLoop(DockerLine(st, Head(lines)), Tail(lines))

\* what DockerfileParser.parse puts into doc.meta
DockerfileMeta(content) == DockerLoop(DockerInit, SplitLines(content))

\* content.splitlines()[0].strip(), content having a line
LicenseHeader(content) == Strip(SplitLines(content)[1])

\* what LicenseParser.parse puts into doc.meta
LicenseMeta(content) == [header |-> LicenseHeader(content)]

NoMeta == [k \in {} |-> <<>>]

\* the parts of the state a specification does not use
IdleChunk ==
    /\ cpc = "idle" /\ c_path = <<>> /\ c_content = <<>> /\ chunk_size = 0
    /\ doc = NoDoc /\ chunks = <<>>

IdleReader ==
    /\ rpc = "idle" /\ in_exclude = <<>> /\ exclude_arg = <<>>
    /\ use_gitignore = FALSE /\ gitignore_file = NoFile
    /\ exclude_patterns = <<>> /\ gitignore_spec = None

IdleMatch == m_path = <<>> /\ excluded = FALSE

IdleScan ==
    /\ spc = "idle" /\ tree = <<>> /\ max_files = 0 /\ pos = 0
    /\ documents = <<>> /\ file_count = 0 /\ events = <<>>

IdleParse ==
    /\ ppc = "idle" /\ p_path = <<>> /\ p_content = <<>> /\ p_doc = NoDoc
    /\ p_meta = NoMeta

NoArgs == [exclude |-> <<>>, chunk_size |-> 0, max_files |-> 0, dry_run |-> FALSE]

IdleMain ==
    /\ mainpc = "idle" /\ path_exists = FALSE /\ args = NoArgs
    /\ main_tree = <<>> /\ main_documents = <<>> /\ main_events = <<>>
    /\ doc_index = 0 /\ total_chunks = 0 /\ written = FALSE /\ status = 0

(***************************************************************************)
(* SpecChunk: a Document is parsed from (path, content), then chunked.     *)
(***************************************************************************)
ChunkAlphabet == {"a", NL}
\* one path for each parser get_parser can return
ChunkPaths ==
    {<<<<"a",".","p","y">>>>, <<<<"a",".","m","d">>>>, <<<<"a",".","t","x","t">>>>,
     <<<<"a">>>>, <<DockerfileName>>, <<LicenseName>>}

InitChunk ==
    /\ cpc = "new"
    /\ c_path \in ChunkPaths
    /\ c_content \in StrsUpTo(ChunkAlphabet, MaxContentLen)
    /\ chunk_size \in (-1)..MaxChunkSize
    /\ doc = NoDoc
    /\ chunks = <<>>
    /\ IdleReader /\ IdleMatch /\ IdleScan /\ IdleMain /\ IdleParse

ParseDoc ==
    /\ cpc = "new"
    /\ ~ParserRaises(c_path, c_content)
    /\ doc' = Parse(c_path, c_content)
    /\ cpc' = "parsed"
    /\ UNCHANGED <<c_path, c_content, chunk_size, chunks, readerVars, matchVars, scanVars, mainVars, parseVars>>

ParseRaise ==
    /\ cpc = "new"
    /\ ParserRaises(c_path, c_content)
    /\ cpc' = "parse_error"
    /\ UNCHANGED <<c_path, c_content, chunk_size, doc, chunks, readerVars, matchVars, scanVars, mainVars, parseVars>>

ChunkDoc ==
    /\ cpc = "parsed"
    /\ chunk_size # 0
    /\ chunks' = chunk_document(doc, chunk_size)
    /\ cpc' = "chunked"
    /\ UNCHANGED <<c_path, c_content, chunk_size, doc, readerVars, matchVars, scanVars, mainVars, parseVars>>

ChunkRaise ==
    /\ cpc = "parsed"
    /\ chunk_size = 0
    /\ cpc' = "chunk_error"
    /\ UNCHANGED <<c_path, c_content, chunk_size, doc, chunks, readerVars, matchVars, scanVars, mainVars, parseVars>>

NextChunk == ParseDoc \/ ParseRaise \/ ChunkDoc \/ ChunkRaise

SpecChunk == InitChunk /\ [][NextChunk]_vars

(***************************************************************************)
(* SpecParse: DockerfileParser or LicenseParser parses one file.           *)
(***************************************************************************)
MaxFileLines == 2

\* the lines a Dockerfile of the model is made of
DockerLines ==
    {<<"F", "R", "O", "M", " ", "a", " ", "A", "S", " ", "b">>,
     <<"f", "r", "o", "m", " ", "b">>,
     <<"F", "R", "O", "M", " ", "a", " ", "a", "s", " ", "b">>,
     <<"F", "R", "O", "M", " ", " ", "A", "S", " ", "b">>,
     <<"W", "O", "R", "K", "D", "I", "R", " ", "/", "a">>,
     <<" ", " ", "w", "o", "r", "k", "d", "i", "r", " ", "/", "b", "\t">>,
     <<"E", "N", "T", "R", "Y", "P", "O", "I", "N", "T", " ", "e">>,
     <<"e", "n", "t", "r", "y", "p", "o", "i", "n", "t", " ", "f">>,
     <<"C", "M", "D", " ", "c">>,
     <<"C", "m", "d", " ", "d">>,
     <<"E", "N", "V", " ", "K", "=", "v">>,
     <<"E", "N", "V", " ", "K", " ", "o">>,
     <<"E", "N", "V", " ", "J", " ", "=", " ", "u">>,
     <<"E", "N", "V", " ", "K", " ", "v", "=", "w">>,
     <<"E", "N", "V", " ", "K">>,
     <<"R", "U", "N", " ", "x">>,
     <<>>}

\* the Dockerfile of the build-manifest example
ExampleDockerfile ==
    Join(<<<<"F", "R", "O", "M", " ", "a", "l", "p", "i", "n", "e", ":", "3", ".", "1", "8", " ", "A", "S", " ", "b", "u", "i", "l", "d">>,
           <<"W", "O", "R", "K", "D", "I", "R", " ", "/", "a", "p", "p">>,
           <<"E", "N", "V", " ", "K", "E", "Y", "=", "v", "a", "l", "u", "e">>,
           <<"E", "N", "V", " ", "K", "E", "Y", "=", "o", "t", "h", "e", "r">>>>, NL)

\* the lines a LICENSE of the model is made of
LicenseLines == {<<>>, <<" ">>, <<"M", "I", "T">>, <<" ", "a", "\t">>}

\* the text of the lines ls, with or without a final newline
TextOf(ls, final_newline) ==
    Join(ls, NL) \o (IF final_newline THEN <<NL>> ELSE <<>>)

\* the sequences of at most n lines out of L
LinesUpTo(L, n) == UNION {[1..k -> L] : k \in 0..n}

InitParse ==
    /\ ppc = "new"
    /\ \/ /\ p_path = <<DockerfileName>>
          /\ \/ \E ls \in LinesUpTo(DockerLines, MaxFileLines) :
                   \E final_newline \in BOOLEAN :
                       p_content = TextOf(ls, final_newline)
             \/ p_content = ExampleDockerfile
       \/ /\ p_path = <<LicenseName>>
          /\ \E ls \in LinesUpTo(LicenseLines, MaxFileLines) :
                \E final_newline \in BOOLEAN :
                    p_content = TextOf(ls, final_newline)
    /\ p_doc = NoDoc
    /\ p_meta = NoMeta
    /\ IdleChunk /\ IdleReader /\ IdleMatch /\ IdleScan /\ IdleMain

parseFrame == <<chunkVars, readerVars, matchVars, scanVars, mainVars>>

\* DockerfileParser.parse
ParseDockerfile ==
    /\ ppc = "new"
    /\ get_parser(p_path) = "dockerfile"
    /\ p_doc' = BaseParse(p_path, p_content, "dockerfile")
    /\ p_meta' = DockerfileMeta(p_content)
    /\ ppc' = "parsed"
    /\ UNCHANGED <<p_path, p_content, parseFrame>>

\* LicenseParser.parse
ParseLicense ==
    /\ ppc = "new"
    /\ get_parser(p_path) = "license"
    /\ SplitLines(p_content) # <<>>
    /\ p_doc' = BaseParse(p_path, p_content, "license")
    /\ p_meta' = LicenseMeta(p_content)
    /\ ppc' = "parsed"
    /\ UNCHANGED <<p_path, p_content, parseFrame>>

\* LicenseParser.parse on a content without lines: IndexError
ParseLicenseRaises ==
    /\ ppc = "new"
    /\ get_parser(p_path) = "license"
    /\ SplitLines(p_content) = <<>>
    /\ ppc' = "parse_error"
    /\ UNCHANGED <<p_path, p_content, p_doc, p_meta, parseFrame>>

NextParse == ParseDockerfile \/ ParseLicense \/ ParseLicenseRaises

SpecParse == InitParse /\ [][NextParse]_vars

(***************************************************************************)
(* SpecMatch: a reader is built and should_exclude is called on one path.  *)
(***************************************************************************)
MaxDepth == 3
MaxPatLen == 3

PlainNames == {<<"a">>, <<"a","b">>, <<"b">>}
NoiseNames == {<<"x",".","p","y","c">>,
               <<"_","_","p","y","c","a","c","h","e","_","_">>,
               <<".","g","i","t">>,
               <<".","v","e","n","v">>,
               <<"v","e","n","v">>,
               <<"n","o","d","e","_","m","o","d","u","l","e","s">>,
               <<"d","i","s","t">>,
               <<"b","u","i","l","d">>,
               <<"p",".","e","g","g","-","i","n","f","o">>}

PathsUpTo(names, d) == UNION {[1..k -> names] : k \in 1..d}

\* every path of plain names, and each noise name as the file, as the parent
\* directory and as a higher ancestor
MatchPaths ==
    PathsUpTo(PlainNames, MaxDepth)
    \cup UNION {{<<n>>, <<n, <<"a">>>>, <<<<"a">>, n>>, <<n, <<"b">>, <<"a">>>>} :
                n \in NoiseNames}

UserPatterns == StrsUpTo({"a", "*", "/"}, MaxPatLen)
UserPatternLists == {<<>>} \cup {<<p>> : p \in UserPatterns}

GitignoreFiles ==
    {NoFile,
     GitignoreFile(<<>>),
     GitignoreFile(<<<<"a">>>>),
     GitignoreFile(<<<<"*","b">>, <<"!","a","b">>>>),
     GitignoreFile(<<<<"!","a","b">>, <<"*","b">>>>),
     GitignoreFile(<<<<"a","/">>, <<"!","a","/","b">>>>),
     GitignoreFile(<<<<"/","b">>>>)}

\* the arguments of __init__ and the root's .gitignore; with use_gitignore
\* off the file is never opened, so one file stands for all of them
InitReaderInputs ==
    /\ rpc = "new"
    /\ in_exclude \in UserPatternLists
    /\ exclude_arg = in_exclude
    /\ \/ use_gitignore = TRUE /\ gitignore_file \in GitignoreFiles
       \/ use_gitignore = FALSE
          /\ gitignore_file \in {NoFile, GitignoreFile(<<<<"a">>>>)}
    /\ exclude_patterns = <<>>
    /\ gitignore_spec = None

InitMatch ==
    /\ InitReaderInputs
    /\ m_path \in MatchPaths
    /\ excluded = FALSE
    /\ IdleChunk /\ IdleScan /\ IdleMain /\ IdleParse

MatchConstruct == Construct /\ UNCHANGED <<chunkVars, matchVars, scanVars, mainVars, parseVars>>

CallShouldExclude ==
    /\ rpc = "ready"
    /\ excluded' = should_exclude(m_path, use_gitignore, gitignore_spec,
                                  exclude_patterns)
    /\ rpc' = "called"
    /\ UNCHANGED <<in_exclude, exclude_arg, use_gitignore, gitignore_file,
                   exclude_patterns, gitignore_spec, m_path, chunkVars, scanVars,
                   mainVars, parseVars>>

NextMatch == MatchConstruct \/ CallShouldExclude

SpecMatch == InitMatch /\ [][NextMatch]_vars


(***************************************************************************)
(* readers.py: RepoReader.read_files                                       *)
(***************************************************************************)
\* mutation: the cap is tested with > instead of >=
CapReachedOffByOne(count, cap) == count > cap

\* `if file_count >= max_files`
CapReached(count, cap) == count >= cap

\* `if len(content) > 100000`
TooLarge(content) == PyLen(content) > MaxContentChars

Ev(op, i) == [op |-> op, entry |-> i]

\* what a step of read_files leaves alone
scanFrame == <<chunkVars, readerVars, matchVars, mainVars, parseVars>>

\* mutation: the loop breaks at the cap without the warning
CapBreakSilent(i) == <<Ev("next", i)>>

\* the cap branch on fetching entry i: logger.warning, then break
CapBreak(i) == <<Ev("next", i), Ev("warn_cap", i)>>

\* what one turn of the loop does to entry i before it decides, in order
UpToIsFile(i) == <<Ev("next", i), Ev("is_file", i)>>
\* mutation: the file is opened before should_exclude is asked
UpToExcludeOpenFirst(i) ==
    <<Ev("next", i), Ev("is_file", i), Ev("open", i), Ev("should_exclude", i)>>

UpToExclude(i) == UpToIsFile(i) \o <<Ev("should_exclude", i)>>
UpToOpen(i) == UpToExclude(i) \o <<Ev("open", i)>>
UpToSize(i) == UpToOpen(i) \o <<Ev("read", i), Ev("size", i)>>
UpToParse(i) == UpToSize(i) \o <<Ev("parse", i)>>

Excluded(e) ==
    should_exclude(e.path, use_gitignore, gitignore_spec, exclude_patterns)

\* documents = [], file_count = 0 and the start of the loop over rglob('*')
StartRead ==
    /\ rpc = "ready" /\ spc = "not called"
    /\ documents' = <<>>
    /\ file_count' = 0
    /\ pos' = 1
    /\ spc' = "loop"
    /\ UNCHANGED <<tree, max_files, events, scanFrame>>

InLoop == rpc = "ready" /\ spc = "loop" /\ pos <= Len(tree)

\* the cap is reached when the loop takes its next entry: warning, break,
\* return documents
StopAtCap ==
    /\ InLoop
    /\ CapReached(file_count, max_files)
    /\ events' = events \o CapBreak(pos)
    /\ spc' = "returned"
    /\ UNCHANGED <<tree, max_files, pos, documents, file_count, scanFrame>>

SkipNotFile ==
    /\ InLoop
    /\ ~CapReached(file_count, max_files)
    /\ ~tree[pos].is_file
    /\ events' = events \o UpToIsFile(pos)
    /\ pos' = pos + 1
    /\ UNCHANGED <<spc, tree, max_files, documents, file_count, scanFrame>>

SkipExcluded ==
    /\ InLoop
    /\ ~CapReached(file_count, max_files)
    /\ tree[pos].is_file
    /\ Excluded(tree[pos])
    /\ events' = events \o UpToExclude(pos)
    /\ pos' = pos + 1
    /\ UNCHANGED <<spc, tree, max_files, documents, file_count, scanFrame>>

\* open/read raises UnicodeDecodeError or PermissionError
SkipUnreadable ==
    /\ InLoop
    /\ ~CapReached(file_count, max_files)
    /\ tree[pos].is_file
    /\ ~Excluded(tree[pos])
    /\ ~tree[pos].readable
    /\ events' = events \o UpToOpen(pos)
    /\ pos' = pos + 1
    /\ UNCHANGED <<spc, tree, max_files, documents, file_count, scanFrame>>

SkipLarge ==
    /\ InLoop
    /\ ~CapReached(file_count, max_files)
    /\ tree[pos].is_file
    /\ ~Excluded(tree[pos])
    /\ tree[pos].readable
    /\ TooLarge(tree[pos].content)
    /\ events' = events \o UpToSize(pos) \o <<Ev("warn_large", pos)>>
    /\ pos' = pos + 1
    /\ UNCHANGED <<spc, tree, max_files, documents, file_count, scanFrame>>

Accept ==
    /\ InLoop
    /\ ~CapReached(file_count, max_files)
    /\ tree[pos].is_file
    /\ ~Excluded(tree[pos])
    /\ tree[pos].readable
    /\ ~TooLarge(tree[pos].content)
    /\ ~ParserRaises(tree[pos].path, tree[pos].content)
    /\ documents' = Append(documents, Parse(tree[pos].path, tree[pos].content))
    /\ file_count' = file_count + 1
    /\ events' = events \o UpToParse(pos) \o <<Ev("append", pos)>>
    /\ pos' = pos + 1
    /\ UNCHANGED <<spc, tree, max_files, scanFrame>>

\* parser.parse raises (LicenseParser on empty content): nothing in
\* read_files catches it
ParseFails ==
    /\ InLoop
    /\ ~CapReached(file_count, max_files)
    /\ tree[pos].is_file
    /\ ~Excluded(tree[pos])
    /\ tree[pos].readable
    /\ ~TooLarge(tree[pos].content)
    /\ ParserRaises(tree[pos].path, tree[pos].content)
    /\ events' = events \o UpToParse(pos) \o <<Ev("raise", pos)>>
    /\ spc' = "raised"
    /\ UNCHANGED <<tree, max_files, pos, documents, file_count, scanFrame>>

\* rglob is exhausted: return documents
Exhausted ==
    /\ rpc = "ready" /\ spc = "loop" /\ pos > Len(tree)
    /\ spc' = "returned"
    /\ UNCHANGED <<tree, max_files, pos, documents, file_count, events, scanFrame>>

(***************************************************************************)
(* SpecScan: a reader is built and read_files is called on a tree.         *)
(***************************************************************************)
MaxEntries == 3
MaxFilesBound == 2

Dir(path) == [path |-> path, is_file |-> FALSE, readable |-> FALSE, content |-> <<>>]
File(path, content) ==
    [path |-> path, is_file |-> TRUE, readable |-> TRUE, content |-> content]
Unreadable(path) ==
    [path |-> path, is_file |-> TRUE, readable |-> FALSE, content |-> <<>>]

DirD == <<<<"d">>>>
PathAPy == <<<<"d">>, <<"a",".","p","y">>>>
PathLicense == <<LicenseName>>
PathBTxt == <<<<"b",".","t","x","t">>>>
PathPyc == <<<<"x",".","p","y","c">>>>

\* the entries a tree is made of
Entries ==
    {Dir(DirD),
     File(PathAPy, <<"a">>),
     Unreadable(PathAPy),
     File(PathLicense, <<>>),
     File(PathLicense, <<"a", NL>>),
     File(PathBTxt, <<"a", NL, "a">>),
     File(PathBTxt, <<RunChar, RunChar>>),
     File(PathBTxt, <<RunChar, RunChar, "a">>),
     File(PathBTxt, <<WideRunChar, RunChar>>),
     File(PathPyc, <<"a">>)}

\* the order of rglob: one entry per path, a directory before what it holds
IsTree(es) ==
    /\ \A i, j \in 1..Len(es) : es[i].path = es[j].path => i = j
    /\ \A i \in 1..Len(es) :
          Len(es[i].path) > 1 =>
              \E j \in 1..(i - 1) :
                  /\ ~es[j].is_file
                  /\ es[j].path = SubSeq(es[i].path, 1, Len(es[i].path) - 1)

Trees == {es \in UNION {[1..k -> Entries] : k \in 0..MaxEntries} : IsTree(es)}

ScanExcludeLists == {<<>>, <<<<"b", "*">>>>}
ScanGitignoreFiles == {NoFile, GitignoreFile(<<<<"d", "/">>>>)}

InitScan ==
    /\ rpc = "new"
    /\ in_exclude \in ScanExcludeLists
    /\ exclude_arg = in_exclude
    /\ use_gitignore \in BOOLEAN
    /\ gitignore_file \in ScanGitignoreFiles
    /\ exclude_patterns = <<>>
    /\ gitignore_spec = None
    /\ spc = "not called"
    /\ tree \in Trees
    /\ max_files \in 1..MaxFilesBound
    /\ pos = 0
    /\ documents = <<>>
    /\ file_count = 0
    /\ events = <<>>
    /\ IdleChunk /\ IdleMatch /\ IdleMain /\ IdleParse

ScanConstruct == Construct /\ UNCHANGED <<chunkVars, matchVars, scanVars, mainVars, parseVars>>

NextScan ==
    \/ ScanConstruct
    \/ StartRead
    \/ StopAtCap
    \/ SkipNotFile
    \/ SkipExcluded
    \/ SkipUnreadable
    \/ SkipLarge
    \/ Accept
    \/ ParseFails
    \/ Exhausted

SpecScan == InitScan /\ [][NextScan]_vars


(***************************************************************************)
(* git2mind.py: its own RepoReader, and main                               *)
(***************************************************************************)
\* RepoReader.should_exclude of git2mind.py: the loop over exclude_patterns,
\* whose body is the one of readers.py
MainShouldExclude(path, patterns) ==
    \E k \in 1..Len(patterns) : PatternExcludes(patterns[k], path)

\* RepoReader.read_files of git2mind.py from entry i on, with the Documents
\* and the operations so far: what it returns, or that it raised
RECURSIVE MainReadLoop(_, _, _, _, _, _)
MainReadLoop(es, i, docs, evs, patterns, cap) ==
    IF i > Len(es)
    THEN [documents |-> docs, events |-> evs, raised |-> FALSE]
    ELSE IF CapReached(Len(docs), cap)
    THEN [documents |-> docs,
          events    |-> evs \o CapBreak(i),
          raised    |-> FALSE]
    ELSE IF ~es[i].is_file
    THEN MainReadLoop(es, i + 1, docs, evs \o UpToIsFile(i), patterns, cap)
    ELSE IF MainShouldExclude(es[i].path, patterns)
    THEN MainReadLoop(es, i + 1, docs, evs \o UpToExclude(i), patterns, cap)
    ELSE IF ~es[i].readable
    THEN MainReadLoop(es, i + 1, docs, evs \o UpToOpen(i), patterns, cap)
    ELSE IF PyLen(es[i].content) > MaxContentChars
    THEN MainReadLoop(es, i + 1, docs,
                      evs \o UpToSize(i) \o <<Ev("warn_large", i)>>, patterns, cap)
    ELSE IF ParserRaises(es[i].path, es[i].content)
    THEN [documents |-> docs,
          events    |-> evs \o UpToParse(i) \o <<Ev("raise", i)>>,
          raised    |-> TRUE]
    ELSE MainReadLoop(es, i + 1,
                      Append(docs, Parse(es[i].path, es[i].content)),
                      evs \o UpToParse(i) \o <<Ev("append", i)>>, patterns, cap)

\* mutation: the reader of git2mind.py without the default excludes
MainReadFilesNoDefaults(es, exclude, cap) ==
    MainReadLoop(es, 1, <<>>, <<>>, exclude, cap)

\* RepoReader(str(repo_path), args.exclude).read_files(max_files)
MainReadFiles(es, exclude, cap) ==
    MainReadLoop(es, 1, <<>>, <<>>, exclude \o DefaultExcludes, cap)

\* what main leaves alone
mainFrame == <<chunkVars, readerVars, matchVars, scanVars, parseVars>>

\* `if not repo_path.exists()`: error, return 1
MainPathMissing ==
    /\ mainpc = "start"
    /\ ~path_exists
    /\ status' = 1
    /\ mainpc' = "exit"
    /\ UNCHANGED <<path_exists, args, main_tree, main_documents, main_events,
                   doc_index, total_chunks, written,
                   mainFrame>>

\* the reader is built on args.exclude (the list object is extended unless
\* empty) and read_files returns
MainRead ==
    /\ mainpc = "start"
    /\ path_exists
    /\ LET r == MainReadFiles(main_tree, args.exclude, args.max_files)
       IN  /\ ~r.raised
           /\ main_documents' = r.documents
           /\ main_events' = r.events
    /\ args' = [args EXCEPT !.exclude =
                    IF @ # <<>> THEN @ \o DefaultExcludes ELSE @]
    /\ mainpc' = "read"
    /\ UNCHANGED <<path_exists, main_tree, doc_index, total_chunks, written,
                   status,
                   mainFrame>>

\* read_files raises: main catches nothing, the interpreter exits with 1
MainReadRaises ==
    /\ mainpc = "start"
    /\ path_exists
    /\ LET r == MainReadFiles(main_tree, args.exclude, args.max_files)
       IN  /\ r.raised
           /\ main_events' = r.events
    /\ args' = [args EXCEPT !.exclude =
                    IF @ # <<>> THEN @ \o DefaultExcludes ELSE @]
    /\ status' = 1
    /\ mainpc' = "exit"
    /\ UNCHANGED <<path_exists, main_tree, main_documents, doc_index,
                   total_chunks, written,
                   mainFrame>>

\* `if not documents`: warning, return 1
MainNoDocuments ==
    /\ mainpc = "read"
    /\ main_documents = <<>>
    /\ status' = 1
    /\ mainpc' = "exit"
    /\ UNCHANGED <<path_exists, args, main_tree, main_documents, main_events,
                   doc_index, total_chunks, written,
                   mainFrame>>

\* SimpleChunker(chunk_size=args.chunk_size), total_chunks = 0
MainStartChunking ==
    /\ mainpc = "read"
    /\ main_documents # <<>>
    /\ doc_index' = 1
    /\ total_chunks' = 0
    /\ mainpc' = "chunk"
    /\ UNCHANGED <<path_exists, args, main_tree, main_documents, main_events,
                   written, status,
                   mainFrame>>

\* one turn of `for doc in documents`
MainChunkDoc ==
    /\ mainpc = "chunk"
    /\ doc_index <= Len(main_documents)
    /\ args.chunk_size # 0
    /\ total_chunks' = total_chunks
           + Len(chunk_document(main_documents[doc_index], args.chunk_size))
    /\ doc_index' = doc_index + 1
    /\ UNCHANGED <<mainpc, path_exists, args, main_tree, main_documents,
                   main_events, written, status,
                   mainFrame>>

\* range() raises ValueError for a chunk size of 0
MainChunkRaises ==
    /\ mainpc = "chunk"
    /\ doc_index <= Len(main_documents)
    /\ args.chunk_size = 0
    /\ status' = 1
    /\ mainpc' = "exit"
    /\ UNCHANGED <<path_exists, args, main_tree, main_documents, main_events,
                   doc_index, total_chunks, written,
                   mainFrame>>

\* the output is written unless --dry-run; return 0
MainWrite ==
    /\ mainpc = "chunk"
    /\ doc_index > Len(main_documents)
    /\ written' = ~args.dry_run
    /\ status' = 0
    /\ mainpc' = "exit"
    /\ UNCHANGED <<path_exists, args, main_tree, main_documents, main_events,
                   doc_index, total_chunks,
                   mainFrame>>

(***************************************************************************)
(* SpecMain: one run of main.                                              *)
(***************************************************************************)
MainTrees == {es \in Trees : Len(es) <= 2}

MainArgs ==
    [exclude    : ScanExcludeLists,
     chunk_size : (-1)..MaxChunkSize,
     max_files  : (-1)..MaxFilesBound,
     dry_run    : BOOLEAN]

InitMain ==
    /\ mainpc = "start"
    /\ args \in MainArgs
    /\ \/ path_exists = TRUE /\ main_tree \in MainTrees
       \/ path_exists = FALSE /\ main_tree = <<>>
    /\ main_documents = <<>>
    /\ main_events = <<>>
    /\ doc_index = 0
    /\ total_chunks = 0
    /\ written = FALSE
    /\ status = 0
    /\ IdleChunk /\ IdleReader /\ IdleMatch /\ IdleScan /\ IdleParse

NextMain ==
    \/ MainPathMissing
    \/ MainRead
    \/ MainReadRaises
    \/ MainNoDocuments
    \/ MainStartChunking
    \/ MainChunkDoc
    \/ MainChunkRaises
    \/ MainWrite

SpecMain == InitMain /\ [][NextMain]_vars


(***************************************************************************)
(* Claims about the chunker (checked under SpecChunk).                     *)
(***************************************************************************)
Span(c) == c.end_line - c.start_line + 1

RECURSIVE SumSpans(_)
SumSpans(cs) == IF cs = <<>> THEN 0 ELSE Span(Head(cs)) + SumSpans(Tail(cs))

ChunkContents(cs) == [k \in 1..Len(cs) |-> cs[k].content]

\* C1: for a Document of n >= 1 lines and chunk_size s > 0 the chunks
\* partition lines 1..n in ascending order: chunk i (0-based) spans
\* i*s + 1 .. min((i+1)*s, n); the first starts at 1, each next one starts
\* right after the previous end, the last ends at n, every line lies in
\* exactly one chunk, no chunk spans more than s lines and only the last may
\* span fewer.
C1_ChunksPartitionLines ==
    (cpc = "chunked" /\ chunk_size > 0 /\ doc.lines >= 1) =>
        LET n == doc.lines
            s == chunk_size
            k == Len(chunks)
        IN  /\ k >= 1
            /\ \A i \in 1..k :
                  /\ chunks[i].start_line = (i - 1) * s + 1
                  /\ chunks[i].end_line = Min(i * s, n)
                  /\ 1 <= Span(chunks[i]) /\ Span(chunks[i]) <= s
            /\ chunks[1].start_line = 1
            /\ \A i \in 2..k : chunks[i].start_line = chunks[i - 1].end_line + 1
            /\ chunks[k].end_line = n
            /\ \A l \in 1..n :
                  Cardinality({i \in 1..k : chunks[i].start_line <= l
                                            /\ l <= chunks[i].end_line}) = 1
            /\ \A i \in 1..(k - 1) : Span(chunks[i]) = s

\* C1 witness: several chunks, the last one shorter than chunk_size
C1_Witness ==
    /\ cpc = "chunked" /\ chunk_size > 1 /\ doc.lines >= 1
    /\ Len(chunks) >= 2
    /\ Span(chunks[Len(chunks)]) < chunk_size

\* C2 (as claimed): a Document with empty content gives no chunks, for every
\* chunk_size s > 0.
C2_EmptyContentNoChunks ==
    (cpc = "chunked" /\ chunk_size > 0 /\ doc.content = <<>>) => chunks = <<>>

\* C3 (as claimed): for every s > 0 and every parsed Document, empty content
\* included, the chunks' spans add up to Document.lines.
C3_SpansSumToLines ==
    (cpc = "chunked" /\ chunk_size > 0) => SumSpans(chunks) = doc.lines

\* C4: for every s > 0 each chunk's content is lines start_line..end_line of
\* the Document's content joined by newline, and the chunk contents joined by
\* newline, in order, give back the content unchanged.
C4_ChunksRebuildContent ==
    (cpc = "chunked" /\ chunk_size > 0) =>
        LET lines == Split(doc.content, NL)
        IN  /\ \A i \in 1..Len(chunks) :
                  /\ 1 <= chunks[i].start_line
                  /\ chunks[i].end_line <= Len(lines)
                  /\ chunks[i].content =
                        Join(SubSeq(lines, chunks[i].start_line, chunks[i].end_line), NL)
            /\ Join(ChunkContents(chunks), NL) = doc.content

\* C4 witness: a content with empty lines and a trailing newline, cut into
\* several chunks
C4_Witness ==
    /\ cpc = "chunked" /\ chunk_size > 0
    /\ Len(chunks) >= 2
    /\ doc.content # <<>> /\ doc.content[Len(doc.content)] = NL
    /\ \E i \in 1..Len(chunks) : chunks[i].content = <<>>
    /\ \E i \in 1..Len(chunks) : Count(chunks[i].content, NL) >= 1

(***************************************************************************)
(* Claims about should_exclude (checked under SpecMatch).                  *)
(***************************************************************************)
\* the verdict of each rule source on m_path, from the inputs of the reader
IgnoreFileExcludes ==
    /\ use_gitignore
    /\ gitignore_file.exists
    /\ MatchFile(FromLines(gitignore_file.lines), m_path)

UserExcludes ==
    \E k \in 1..Len(in_exclude) : PatternExcludes(in_exclude[k], m_path)

NoiseExcludes ==
    \E k \in 1..Len(DefaultExcludes) : PatternExcludes(DefaultExcludes[k], m_path)

\* the default-noise patterns as the claim lists them, matched as file name,
\* full path or ancestor directory name
ListedNoise ==
    {<<"*",".","p","y","c">>,
     <<"_","_","p","y","c","a","c","h","e","_","_">>,
     <<".","g","i","t">>,
     <<".","v","e","n","v">>,
     <<"v","e","n","v">>,
     <<"n","o","d","e","_","m","o","d","u","l","e","s">>,
     <<"d","i","s","t">>,
     <<"b","u","i","l","d">>,
     <<"*",".","e","g","g","-","i","n","f","o">>}

AncestorNames(path) == {path[k] : k \in 1..(Len(path) - 1)}

MatchesListedNoise(path) ==
    \E p \in ListedNoise :
        \/ FnMatch(PathName(path), p)
        \/ FnMatch(PathStr(path), p)
        \/ \E d \in AncestorNames(path) : FnMatch(d, p)

\* C7: should_exclude is true exactly when the ignore-file rules, a user
\* pattern or a default-noise pattern excludes the path; a disabled ignore-file
\* mode, or an enabled one without a .gitignore, excludes nothing; a path
\* matching a listed default-noise pattern is excluded whatever the rest.
C7_AnySourceExcludes ==
    rpc = "called" =>
        /\ excluded = (IgnoreFileExcludes \/ UserExcludes \/ NoiseExcludes)
        /\ (~use_gitignore \/ ~gitignore_file.exists) =>
               excluded = (UserExcludes \/ NoiseExcludes)
        /\ MatchesListedNoise(m_path) => excluded

\* C7 witness: no user pattern, no ignore file, a noise directory above the
\* file: excluded
C7_Witness ==
    /\ rpc = "called"
    /\ in_exclude = <<>> /\ ~gitignore_file.exists
    /\ Len(m_path) = 3 /\ PathName(m_path) \in PlainNames
    /\ MatchesListedNoise(m_path)
    /\ excluded

\* the ignore file excludes the path by one rule and re-includes it by a
\* later one, which is the last rule matching the path
Reincluded(spec, path) ==
    \E j \in 1..Len(spec), k \in 1..Len(spec) :
        /\ j < k
        /\ spec[j].include /\ GitMatch(spec[j], path)
        /\ ~spec[k].include /\ GitMatch(spec[k], path)
        /\ \A l \in (k + 1)..Len(spec) : ~GitMatch(spec[l], path)

\* C8: in ignore-file mode a path re-included by a later !rule is no longer
\* excluded by the ignore file, so the verdict is that of the user and
\* default-noise patterns alone; a user pattern matching the path still
\* excludes it.
C8_ReinclusionKeepsOtherSources ==
    (/\ rpc = "called" /\ use_gitignore /\ gitignore_file.exists
     /\ Reincluded(FromLines(gitignore_file.lines), m_path)) =>
        /\ ~IgnoreFileExcludes
        /\ excluded = (UserExcludes \/ NoiseExcludes)
        /\ UserExcludes => excluded

\* C8 witness: a re-included path that only a user pattern excludes
C8_Witness ==
    /\ rpc = "called" /\ use_gitignore /\ gitignore_file.exists
    /\ Reincluded(FromLines(gitignore_file.lines), m_path)
    /\ UserExcludes /\ ~NoiseExcludes
    /\ excluded

\* the pattern with one trailing '/*' removed, otherwise as written
RemoveSuffix(pattern) ==
    IF /\ Len(pattern) >= 2
       /\ pattern[Len(pattern) - 1] = "/" /\ pattern[Len(pattern)] = "*"
    THEN SubSeq(pattern, 1, Len(pattern) - 2)
    ELSE pattern

ClaimedPatternExcludes(pattern, path) ==
    \/ FnMatch(PathStr(path), pattern)
    \/ FnMatch(PathName(path), pattern)
    \/ \E d \in AncestorNames(path) : FnMatch(d, RemoveSuffix(pattern))

\* C9 (as claimed): a user pattern P excludes a path exactly when P matches
\* the full relative path, the file name, or the name of an ancestor
\* directory, P being used there with a trailing '/*' removed and otherwise
\* unchanged.
C9_UserPatternMatching ==
    (/\ rpc = "called" /\ Len(in_exclude) = 1
     /\ ~IgnoreFileExcludes /\ ~NoiseExcludes) =>
        (excluded <=> ClaimedPatternExcludes(in_exclude[1], m_path))

(***************************************************************************)
(* Claims about read_files (checked under SpecScan).                       *)
(***************************************************************************)
\* how many Documents were appended before event number e
AppendsBefore(e) ==
    Cardinality({k \in 1..(e - 1) : events[k].op = "append"})

\* an entry that read_files would accept were it reached
Eligible(e) ==
    /\ e.is_file /\ ~Excluded(e) /\ e.readable
    /\ ~TooLarge(e.content) /\ ~ParserRaises(e.path, e.content)

\* C5: for max_files >= 1 read_files holds at most max_files Documents, and
\* once max_files Documents are accepted no file is tested, opened, read or
\* parsed any more.
C5_CapStopsReading ==
    (spc \in {"loop", "returned", "raised"} /\ max_files >= 1) =>
        /\ Len(documents) <= max_files
        /\ file_count = Len(documents)
        /\ \A e \in 1..Len(events) :
              events[e].op \in {"is_file", "should_exclude", "open", "read",
                                "size", "parse", "append"}
                  => AppendsBefore(e) < max_files

\* C5 witness: read_files returned max_files Documents and left an eligible
\* file of the tree unopened
C5_Witness ==
    /\ spc = "returned" /\ max_files >= 1
    /\ Len(documents) = max_files
    /\ \E i \in 1..Len(tree) :
          /\ Eligible(tree[i])
          /\ \A e \in 1..Len(events) :
                events[e].entry = i => events[e].op \in {"next", "warn_cap"}

\* C6 (as claimed): read_files never raises for a problem with one file:
\* every entry is skipped or becomes a Document, and the loop goes on until
\* the tree is exhausted or the cap is reached.
C6_NoPerFileException ==
    /\ spc # "raised"
    /\ spc = "returned" =>
          \/ pos > Len(tree)
          \/ CapReached(file_count, max_files)

(***************************************************************************)
(* Claims about main (checked under SpecMain).                             *)
(***************************************************************************)
ConfigurationError ==
    ~path_exists \/ args.chunk_size <= 0 \/ args.max_files <= 0

\* C10 (as claimed): with a nonexistent root path, a chunk size <= 0 or a
\* max-files value <= 0 main does no traversal work: no entry is examined,
\* no file is opened or parsed, no Document is chunked, and the run ends
\* with a failure status.
C10_ConfigErrorsBeforeScan ==
    (mainpc # "idle" /\ ConfigurationError) =>
        /\ \A e \in 1..Len(main_events) :
              main_events[e].op \in {"next", "warn_cap"}
        /\ main_documents = <<>>
        /\ mainpc # "chunk"
        /\ total_chunks = 0
        /\ mainpc = "exit" => status # 0


(***************************************************************************)
(* Claims about the size skip and the order of the checks of read_files    *)
(* (checked under SpecScan).                                               *)
(***************************************************************************)
\* entry i got as far as the size test
SizeTested(i) == \E e \in 1..Len(events) : events[e] = Ev("size", i)

\* entry i was skipped with the large-file warning
SkippedLarge(i) == \E e \in 1..Len(events) : events[e] = Ev("warn_large", i)

\* C11 (as claimed): the size skip is decided on the size in bytes: a file
\* that reaches the size test is skipped with a warning if and only if its
\* UTF-8 size exceeds 100,000 bytes, so no Document has size_bytes greater
\* than 100,000.
C11_SizeSkipInBytes ==
    spc \in {"loop", "returned", "raised"} =>
        /\ \A i \in 1..Len(tree) :
              SizeTested(i) =>
                  (SkippedLarge(i) <=> EncodedLen(tree[i].content) > MaxContentChars)
        /\ \A d \in 1..Len(documents) :
              documents[d].size_bytes <= MaxContentChars

\* how many cap-reached warnings were logged
WarnCaps == Cardinality({e \in 1..Len(events) : events[e].op = "warn_cap"})

\* the tree holds two files that read_files would accept
TwoEligible ==
    \E i, j \in 1..Len(tree) : i < j /\ Eligible(tree[i]) /\ Eligible(tree[j])

\* C12: when read_files returns having stopped at the cap (entries of the
\* tree were left), max_files Documents were produced and the cap-reached
\* warning is the last thing logged, once; and with max_files = 1 over a
\* tree with two eligible files it returns exactly one Document and has
\* logged the warning exactly once.
C12_CapWarningBeforeReturn ==
    spc = "returned" =>
        /\ pos <= Len(tree) =>
              /\ Len(documents) = max_files
              /\ WarnCaps = 1
              /\ events[Len(events)] = Ev("warn_cap", pos)
        /\ (max_files = 1 /\ TwoEligible) =>
              /\ Len(documents) = 1
              /\ WarnCaps = 1

\* C12 witness: max_files = 1, two eligible files, one Document returned
\* after the warning
C12_Witness ==
    /\ spc = "returned" /\ max_files = 1 /\ TwoEligible
    /\ Len(documents) = 1
    /\ events[Len(events)].op = "warn_cap"

\* the checks of one turn of the loop, in the order the claim gives them
CheckOrder ==
    <<"next", "is_file", "should_exclude", "open", "read", "size", "parse",
      "append">>

IsCheck(ev) == \E k \in 1..Len(CheckOrder) : CheckOrder[k] = ev.op

\* the checks done on entry i, in the order they were done
ChecksOf(i) ==
    LET mine(ev) == ev.entry = i /\ IsCheck(ev)
        evs == SelectSeq(events, mine)
    IN  [k \in 1..Len(evs) |-> evs[k].op]

Visited(i) == Len(ChecksOf(i)) >= 2

\* C13: the checks on an entry are done in the order is_file,
\* should_exclude, open and read, size, parse and append, and end at the
\* first that rejects the entry: a non-regular entry is tested for nothing
\* else, an excluded file is never opened, an unreadable file is never
\* measured or parsed, an oversized file is never parsed.
C13_ChecksInOrder ==
    spc \in {"loop", "returned", "raised"} =>
        \A i \in 1..Len(tree) :
            /\ Len(ChecksOf(i)) <= Len(CheckOrder)
            /\ \A k \in 1..Len(ChecksOf(i)) : ChecksOf(i)[k] = CheckOrder[k]
            /\ Visited(i) =>
                  Len(ChecksOf(i)) =
                      IF ~tree[i].is_file THEN 2
                      ELSE IF Excluded(tree[i]) THEN 3
                      ELSE IF ~tree[i].readable THEN 4
                      ELSE IF TooLarge(tree[i].content) THEN 6
                      ELSE IF ParserRaises(tree[i].path, tree[i].content) THEN 7
                      ELSE 8

\* C13 witness: a scan that met an excluded file, an oversized file and a
\* file it accepted
C13_Witness ==
    /\ spc = "returned"
    /\ \E i, j, k \in 1..Len(tree) :
          /\ Visited(i) /\ tree[i].is_file /\ Excluded(tree[i])
          /\ Visited(j) /\ ~Excluded(tree[j]) /\ TooLarge(tree[j].content)
          /\ Len(ChecksOf(k)) = 8


(***************************************************************************)
(* Claims about the parsers (C14 checked under SpecChunk, the others under *)
(* SpecParse).                                                             *)
(***************************************************************************)
Languages == {"python", "markdown", "dockerfile", "license", "text", "unknown"}

\* C14: the Document any parser builds has lines = (number of '\n' in the
\* content) + 1 for a non-empty content and lines = 0 for the empty
\* content, and holds the content it was given, unchanged.
C14_LineCountInvariant ==
    cpc \in {"parsed", "chunked", "chunk_error"} =>
        /\ doc.language \in Languages
        /\ doc.content = c_content
        /\ c_content # <<>> =>
              doc.lines = Cardinality({k \in 1..Len(c_content) : c_content[k] = NL}) + 1
        /\ c_content = <<>> => doc.lines = 0

\* C14 witness: the Dockerfile parser built a Document of three lines
C14_Witness ==
    /\ cpc = "parsed"
    /\ doc.language = "dockerfile" /\ doc.lines = 3 /\ doc.content = c_content

\* the lines of the parsed file
FileLines == SplitLines(p_content)

\* line k is a directive of the keyword kw (kw ends with the separating
\* space), the keyword in any case
IsDirective(k, kw) == StartsWith(Upper(Strip(FileLines[k])), kw)

\* the trimmed argument of the directive on line k
Argument(k, kw) == Strip(DropFirst(Strip(FileLines[k]), Len(kw)))

Directives(kw) == {k \in 1..Len(FileLines) : IsDirective(k, kw)}
First(ks) == CHOOSE k \in ks : \A j \in ks : k <= j
Last(ks) == CHOOSE k \in ks : \A j \in ks : j <= k

DockerfileParsed == ppc = "parsed" /\ get_parser(p_path) = "dockerfile"

\* the argument of the FROM on line k without its stage alias: what
\* precedes the AS clause (AS in any case), trimmed
ImageOf(k) ==
    LET rest == DropFirst(Strip(FileLines[k]), Len(KwFrom))
        a == FindSub(Upper(rest), SepAs)
    IN  IF a = 0 THEN Strip(rest) ELSE Strip(SubSeq(rest, 1, a - 1))

\* C15 (as claimed): for a Dockerfile with at least one FROM directive
\* (FROM in any case), image is the argument of the first FROM directive,
\* trimmed and with the stage alias of an AS clause removed, whatever FROM
\* directives follow.
C15_ImageIsFirstFrom ==
    (DockerfileParsed /\ Directives(KwFrom) # {}) =>
        p_meta.image = Str(ImageOf(First(Directives(KwFrom))))

\* the value the claim gives a directive keyword: the trimmed argument of
\* its last directive, None when the file has none
LastArgument(kw) ==
    IF Directives(kw) = {} THEN Unset ELSE Str(Argument(Last(Directives(kw)), kw))

\* what the ENV directive on line k sets: one key, or nothing
EnvOf(k) == EnvLine(EmptyEnv, Argument(k, KwEnv))

\* the ENV directives that set key
Setters(key) == {k \in Directives(KwEnv) : key \in DOMAIN EnvOf(k)}

\* the FROM directives that name an image
NamedFroms ==
    {k \in Directives(KwFrom) : ~Falsy(DockerLine(DockerInit, FileLines[k]).image)}

\* C16: workdir, entrypoint and cmd are the trimmed argument of the last
\* WORKDIR, ENTRYPOINT and CMD directive of the file, env holds every key
\* an ENV directive sets, with the value of the last directive that sets
\* it, and image is that of the first FROM that names one; the example
\* Dockerfile gives workdir '/app' and env {KEY: 'other'}.
C16_LastDirectiveWins ==
    DockerfileParsed =>
        /\ p_meta.workdir = LastArgument(KwWorkdir)
        /\ p_meta.entrypoint = LastArgument(KwEntrypoint)
        /\ p_meta.cmd = LastArgument(KwCmd)
        /\ DOMAIN p_meta.env = UNION {DOMAIN EnvOf(k) : k \in Directives(KwEnv)}
        /\ \A key \in DOMAIN p_meta.env :
              p_meta.env[key] = EnvOf(Last(Setters(key)))[key]
        /\ NamedFroms # {} =>
              p_meta.image = DockerLine(DockerInit, FileLines[First(NamedFroms)]).image
        /\ p_content = ExampleDockerfile =>
              /\ p_meta.image = Str(<<"a", "l", "p", "i", "n", "e", ":", "3", ".", "1", "8">>)
              /\ p_meta.workdir = Str(<<"/", "a", "p", "p">>)
              /\ DOMAIN p_meta.env = {<<"K", "E", "Y">>}
              /\ p_meta.env[<<"K", "E", "Y">>] = <<"o", "t", "h", "e", "r">>

\* C16 witness: the example Dockerfile was parsed: its ENV key is set twice
\* and holds the later value, after a FROM with an alias and a WORKDIR
C16_Witness ==
    /\ DockerfileParsed
    /\ p_content = ExampleDockerfile
    /\ \E key \in DOMAIN p_meta.env :
          /\ Cardinality(Setters(key)) = 2
          /\ EnvOf(First(Setters(key)))[key] # p_meta.env[key]
    /\ ~p_meta.workdir.is_none /\ ~p_meta.image.is_none

\* what the claim says the ENV directive on line k sets: 'key=value' when
\* one word precedes the first '=', else 'key value' with the whole trimmed
\* remainder as the value, whatever it contains
ClaimedEnvOf(k) ==
    LET arg == Argument(k, KwEnv)
        w == FindWhitespace(arg)
        e == FindSub(arg, <<"=">>)
    IN  IF e # 0 /\ FindWhitespace(Strip(SubSeq(arg, 1, e - 1))) = 0
        THEN EnvSet(EmptyEnv, Strip(SubSeq(arg, 1, e - 1)),
                    Strip(SubSeq(arg, e + 1, Len(arg))))
        ELSE IF w # 0
        THEN EnvSet(EmptyEnv, SubSeq(arg, 1, w - 1),
                    Strip(SubSeq(arg, w, Len(arg))))
        ELSE EmptyEnv

\* C17 (as claimed): an ENV directive of either form sets env[key] = value
\* (unless a later ENV directive sets the same key), the value of the
\* 'key value' form being the whole trimmed remainder after the key.
C17_BothEnvForms ==
    DockerfileParsed =>
        \A k \in Directives(KwEnv) :
            \A key \in DOMAIN ClaimedEnvOf(k) :
                (\A j \in Directives(KwEnv) :
                    j > k => key \notin DOMAIN ClaimedEnvOf(j))
                => /\ key \in DOMAIN p_meta.env
                   /\ p_meta.env[key] = ClaimedEnvOf(k)[key]

\* C18: a Dockerfile without a FROM directive leaves image unset (None, not
\* the empty string): image has a value only if the file has a FROM
\* directive.
C18_NoFromNoImage ==
    DockerfileParsed =>
        /\ Directives(KwFrom) = {} => p_meta.image = Unset
        /\ ~p_meta.image.is_none => Directives(KwFrom) # {}

\* C18 witness: a Dockerfile with directives, none of them FROM, was parsed
\* and image is None while workdir and env are set
C18_Witness ==
    /\ DockerfileParsed
    /\ Directives(KwFrom) = {}
    /\ Directives(KwWorkdir) # {} /\ Directives(KwEnv) # {}
    /\ ~p_meta.workdir.is_none /\ DOMAIN p_meta.env # {}
    /\ p_meta.image.is_none

LicenseParsed == ppc = "parsed" /\ get_parser(p_path) = "license"

\* the lines of the file that are not blank
NonBlank == {k \in 1..Len(FileLines) : Strip(FileLines[k]) # <<>>}

\* C19 (as claimed): for a LICENSE with a non-blank line, header is the
\* first line whose trimmed text is not empty, trimmed; blank lines before
\* it are passed over.
C19_HeaderIsFirstNonBlankLine ==
    (LicenseParsed /\ NonBlank # {}) =>
        p_meta.header = Strip(FileLines[First(NonBlank)])


(***************************************************************************)
(* Claims about the two readers (checked under SpecScan).                  *)
(***************************************************************************)
\* ignore-file rules play no part: use_gitignore is False, or the root has
\* no .gitignore
NoIgnoreRules == ~use_gitignore \/ ~gitignore_file.exists

\* the paths the two should_exclude are compared on
ComparedPaths ==
    {tree[i].path : i \in 1..Len(tree)}
        \cup {<<<<".","g","i","t">>, <<"a">>>>, <<<<"d">>, <<"b">>>>}

\* C20: when ignore-file rules play no part, the RepoReader of readers.py
\* gives every path the should_exclude verdict the RepoReader of git2mind.py
\* gives it, and read_files of the two accept the same files in the same
\* order (and end the same way).
C20_ReadersAgree ==
    (rpc = "ready" /\ NoIgnoreRules) =>
        /\ \A path \in ComparedPaths :
              should_exclude(path, use_gitignore, gitignore_spec, exclude_patterns)
                  = MainShouldExclude(path, in_exclude \o DefaultExcludes)
        /\ spc \in {"returned", "raised"} =>
              LET r == MainReadFiles(tree, in_exclude, max_files)
              IN  /\ documents = r.documents
                  /\ events = r.events
                  /\ r.raised = (spc = "raised")

\* C20 witness: a .gitignore lies at the root but use_gitignore is False;
\* read_files returned a Document for a file the .gitignore names and
\* skipped an excluded file
C20_Witness ==
    /\ spc = "returned" /\ ~use_gitignore /\ gitignore_file.exists
    /\ \E i \in 1..Len(tree) :
          /\ MatchFile(FromLines(gitignore_file.lines), tree[i].path)
          /\ Ev("append", i) \in {events[e] : e \in 1..Len(events)}
    /\ \E i \in 1..Len(tree) : Visited(i) /\ tree[i].is_file /\ Excluded(tree[i])


(***************************************************************************)
(* Claims about RepoReader.__init__ (checked under SpecMatch).             *)
(***************************************************************************)
\* C21 (as claimed): constructing a RepoReader leaves the list object the
\* caller passed as exclude_patterns unchanged: once the reader is built the
\* caller's list still holds exactly the user's patterns, the default
\* patterns being in the reader's own exclude_patterns only.
C21_ConstructLeavesCallerList ==
    rpc \in {"ready", "called"} =>
        /\ exclude_arg = in_exclude
        /\ exclude_patterns = in_exclude \o DefaultExcludes

====
